---- MODULE Spec2Model ----
(***************************************************************************)
(* The covers cache of isbnlib (isbnlib/dev/_coverscache.py): an index     *)
(* from keys to (url, path) kept by a ShelveCache, and the files that the  *)
(* paths name, spread over slot directories under the cache root.          *)
(*                                                                         *)
(* The state is the disk (which files exist under the cache root and what  *)
(* they hold) and the index (the entries and their hit counters).  Each    *)
(* method of CoversCache is one action.  ShelveCache (_shelvecache.py) is  *)
(* the index: the Index* definitions model it from its description.       *)
(***************************************************************************)
EXTENDS Integers, FiniteSets, Sequences, TLC

\* ------------------------------------------------------------------ bounds
MaxHits == 3            \* hit counters are followed up to this value

\* ------------------------------------------------------- program constants
MAXLEN == 1             \* CoversCache.MAXLEN (3000 in the source), scaled
RandHi == 1             \* the 9 of randint(0, 9) in _get_slot, scaled

Keys == {"k1", "k2"}                 \* the keys a caller uses
Urls == {"u1"}                       \* the non-empty urls
UrlInputs == Urls \cup {""}          \* "" is the empty (falsy) url
Names == {"a.jpg", "b.jpg"}          \* base names of files
Contents == {"c1", "c2"}             \* what a regular file holds
NoFile == "-"                        \* no regular file at the path
IndexBlob == "shelve"                \* what the index file holds (opaque)

\* NSLOTS is a class attribute (10 in the source, one more than the 9 of
\* randint); the disk has room for one slot directory more than that.
MaxDirs == RandHi + 2

\* ----------------------------------------------------------------- paths
\* A path is a directory and a base name.  SlotDir(i) is
\* <cachepath>/slot%02d % i, RootDir is <cachepath> itself and ExtDir is a
\* directory outside the cache root.
SlotDir(i) == [kind |-> "slot", n |-> i]
RootDir == [kind |-> "root", n |-> 0]
ExtDir == [kind |-> "ext", n |-> 0]
NoDir == [kind |-> "none", n |-> 0]
Join(d, name) == [dir |-> d, base |-> name]
Basename(p) == p.base
NonePath == Join(NoDir, "None")                  \* Python's None
EmptyPath == Join(NoDir, "")                     \* the empty string
SlotPaths == {Join(SlotDir(i), b) : i \in 0 .. (MaxDirs - 1), b \in Names}
ExtPaths == {Join(ExtDir, b) : b \in Names}
SourcePaths == {EmptyPath} \cup ExtPaths \cup SlotPaths

VARIABLES
    NSLOTS,     \* the configured number of slot directories
    disk,       \* DiskPaths -> NoFile or the contents of the regular file
    root,       \* the cache root directory exists
    attached,   \* self._index is a ShelveCache (FALSE: it is None)
    index       \* the entries: present keys -> [url, path, hits]

vars == <<NSLOTS, disk, root, attached, index>>

\* self._indexpath = os.path.join(cachepath, self.INDEXFN)
IndexPath == Join(RootDir, ".index")
DiskPaths == SlotPaths \cup {IndexPath}
EmptyDisk == [p \in DiskPaths |-> NoFile]
EmptyIndex == [k \in {} |-> 0]

\* What a call returns.
RetTrue == "True"
RetFalse == "False"
RetNone == "None"
RetValue == "value"
RetRaised == "raised"            \* an exception reaches the caller
NoValue == [url |-> "", path |-> NonePath]

\* -------------------------------------------------------- the file system
\* os.path.isfile(p) for a path under the cache root, on disk d.
IsFile(d, p) == p \in DOMAIN d /\ d[p] # NoFile

\* _create_slots: os.mkdir of "slot%02d" % slot for slot in range(NSLOTS).
CreateSlots(n) == {SlotDir(i) : i \in 0 .. (n - 1)}

\* A slot directory exists when the root does and _create_slots made it.
DirExists(r, n, dir) ==
    \/ dir = RootDir /\ r
    \/ dir \in CreateSlots(n) /\ r

\* ---------------------------------------------- ShelveCache (the index)
\* self._index[key]: the stored (url, path); a read counts one hit.
IndexHas(idx, key) == key \in DOMAIN idx
IndexValue(idx, key) == [url |-> idx[key].url, path |-> idx[key].path]
IndexRead(idx, key) == [idx EXCEPT ![key].hits = @ + 1]
\* self._index[key] = (url, path): a fresh record, no hits yet.
IndexWrite(idx, key, url, path) ==
    [k \in DOMAIN idx \cup {key} |->
        IF k = key THEN [url |-> url, path |-> path, hits |-> 0] ELSE idx[k]]
\* del self._index[key]
IndexDelete(idx, key) == [k \in DOMAIN idx \ {key} |-> idx[k]]
\* self._index.purge(): the key sets it may retain.  At most MAXLEN entries
\* stay, and no retained entry has fewer hits than an evicted one.
IndexPurgeRetains(idx) ==
    IF Cardinality(DOMAIN idx) <= MAXLEN THEN {DOMAIN idx}
    ELSE {R \in SUBSET DOMAIN idx :
            /\ Cardinality(R) = MAXLEN
            /\ \A r \in R, e \in DOMAIN idx \ R : idx[r].hits >= idx[e].hits}
IndexRestrict(idx, R) == [k \in R |-> idx[k]]

\* ------------------------------------------------------------ CoversCache
\* Mutant: only the missing key is caught (`except KeyError`).
GetReturnsKeyError(att, idx, key) ==
    IF ~att THEN RetRaised
    ELSE IF IndexHas(idx, key) THEN RetValue ELSE RetNone

\* __getitem__: try: return self._index[key]; except: return None
\* (self._index is None after delete(), a key may be missing: both raise
\* inside the try).
GetReturns(att, idx, key) ==
    IF att /\ IndexHas(idx, key) THEN RetValue ELSE RetNone
GetValue(att, idx, key) ==
    IF att /\ IndexHas(idx, key) THEN IndexValue(idx, key) ELSE NoValue
GetIndex(att, idx, key) ==
    IF att /\ IndexHas(idx, key) THEN IndexRead(idx, key) ELSE idx

\* _get_slot: "slot%02d" % randint(0, 9), joined to the cache path.
GetSlots == {SlotDir(i) : i \in 0 .. RandHi}

\* target = os.path.join(self._get_slot(), os.path.basename(pth))
Target(slot, pth) == Join(slot, Basename(pth))

\* `if pth and os.path.isfile(pth)`: content is what the file at pth
\* holds when __setitem__ is called (NoFile: no regular file there).
SourceOk(pth, content) == pth # EmptyPath /\ pth # NonePath /\ content # NoFile

\* content is what pth holds on disk d: a path under the cache root holds
\* what the disk has there, the empty path names nothing, and a file outside
\* the cache holds whatever its owner put there.
SourceHolds(d, pth, content) ==
    /\ pth \in SlotPaths => content = d[pth]
    /\ pth = EmptyPath => content = NoFile

\* shutil.copyfile(pth, target) raises when both name the same file or
\* when the directory of target does not exist.
CopyRaises(r, n, pth, target) == pth = target \/ ~DirExists(r, n, target.dir)
CopyFile(d, target, content) == [d EXCEPT ![target] = content]

\* The disk after the first `if` of __setitem__.
SetDisk(d, r, n, pth, content, slot) ==
    IF SourceOk(pth, content) /\ ~CopyRaises(r, n, pth, Target(slot, pth))
    THEN CopyFile(d, Target(slot, pth), content)
    ELSE d

\* Mutant: the url is not looked at before the commit.
SetCommitsAnyUrl(d, r, n, att, url, pth, content, slot) ==
    /\ SourceOk(pth, content)
    /\ ~CopyRaises(r, n, pth, Target(slot, pth))
    /\ IsFile(CopyFile(d, Target(slot, pth), content), Target(slot, pth))
    /\ att

\* `if os.path.isfile(target) and url`, reached only when target is bound
\* and the copy did not raise; then self._index[key] = (url, target), which
\* raises when self._index is None.
SetCommits(d, r, n, att, url, pth, content, slot) ==
    /\ SourceOk(pth, content)
    /\ ~CopyRaises(r, n, pth, Target(slot, pth))
    /\ IsFile(SetDisk(d, r, n, pth, content, slot), Target(slot, pth))
    /\ url # ""
    /\ att

\* Mutant: the index records the path of the source, not of the copy.
SetIndexSource(d, r, n, att, idx, key, url, pth, content, slot) ==
    IF SourceOk(pth, content) /\ ~CopyRaises(r, n, pth, Target(slot, pth))
       /\ url # "" /\ att
    THEN IndexWrite(idx, key, url, pth)
    ELSE idx

SetIndex(d, r, n, att, idx, key, url, pth, content, slot) ==
    IF SetCommits(d, r, n, att, url, pth, content, slot)
    THEN IndexWrite(idx, key, url, Target(slot, pth))
    ELSE idx

SetReturns(d, r, n, att, url, pth, content, slot) ==
    IF SetCommits(d, r, n, att, url, pth, content, slot) THEN RetTrue ELSE RetFalse

\* Mutant: the entry is kept with its path cleared.
DelIndexClearPath(att, idx, key) ==
    IF att /\ IndexHas(idx, key)
    THEN IndexWrite(idx, key, idx[key].url, NonePath)
    ELSE idx

\* __delitem__: try: del self._index[key]; return True; except: return False
DelIndex(att, idx, key) ==
    IF att /\ IndexHas(idx, key) THEN IndexDelete(idx, key) ELSE idx
\* del of a key the index does not hold: the index may raise (False) or
\* ignore it (True).
DelReturns(att, idx, key) ==
    IF ~att THEN {RetFalse}
    ELSE IF IndexHas(idx, key) THEN {RetTrue}
    ELSE {RetTrue, RetFalse}

\* files(): every file os.walk finds under the cache root.
Files(d) == {p \in DiskPaths : IsFile(d, p)}

\* The orders in which `for key in self._index.keys()` may visit the keys.
KeyOrders(idx) ==
    {o \in [1 .. Cardinality(DOMAIN idx) -> DOMAIN idx] :
        \A i, j \in DOMAIN o : o[i] = o[j] => i = j}

\* os.path.isfile(pth) in sync: os.stat(None) raises TypeError, which
\* isfile does not catch (it catches os.error only).
IsFileRaises(pth) == pth = NonePath

\* One pass of the body of the loop of sync for `key`:
\*     url, pth = self._index[key]
\*     if not os.path.isfile(pth): self._index[key] = (url, None)
\*     checked.append(self._index[key][1])
SyncEntry(d, idx, key) ==
    LET read == IndexRead(idx, key)
        url == idx[key].url
        pth == idx[key].path
        fixed == IF IsFile(d, pth) THEN read ELSE IndexWrite(read, key, url, NonePath)
    IN  IndexRead(fixed, key)

\* The loop of sync over the keys in order ord, from position i on.
RECURSIVE SyncLoop(_, _, _, _, _)
SyncLoop(d, idx, ord, i, checked) ==
    IF i > Len(ord) THEN [raised |-> FALSE, index |-> idx, checked |-> checked]
    ELSE IF IsFileRaises(idx[ord[i]].path)
    THEN [raised |-> TRUE, index |-> IndexRead(idx, ord[i]), checked |-> checked]
    ELSE LET next == SyncEntry(d, idx, ord[i])
         IN  SyncLoop(d, next, ord, i + 1, checked \cup {next[ord[i]].path})

\* Mutant: the paths of the entries are not kept out of the removal.
RemoveOrphansAll(d, checked) ==
    [p \in DiskPaths |-> IF IsFile(d, p) /\ p # IndexPath THEN NoFile ELSE d[p]]

\* diff = set(self.files()) - set(checked); os.remove(fp) for fp in diff
RemoveOrphans(d, checked) ==
    [p \in DiskPaths |-> IF IsFile(d, p) /\ p \notin checked THEN NoFile ELSE d[p]]

\* sync() as a whole, visiting the keys in order ord.  self._index.keys()
\* raises when self._index is None.
\* A sync() whose checked list does not start with the index path.
SyncRunUnseeded(d, att, idx, ord) ==
    IF ~att THEN [raised |-> TRUE, index |-> idx, disk |-> d]
    ELSE LET loop == SyncLoop(d, idx, ord, 1, {})
         IN  [raised |-> loop.raised,
              index |-> loop.index,
              disk |-> IF loop.raised THEN d ELSE RemoveOrphans(d, loop.checked)]

SyncRun(d, att, idx, ord) ==
    IF ~att THEN [raised |-> TRUE, index |-> idx, disk |-> d]
    ELSE LET loop == SyncLoop(d, idx, ord, 1, {IndexPath})
         IN  [raised |-> loop.raised,
              index |-> loop.index,
              disk |-> IF loop.raised THEN d ELSE RemoveOrphans(d, loop.checked)]

\* Mutant: purge() forgets self._index.purge() and only syncs.
PurgeRunSyncOnly(d, att, idx, R, ord) ==
    IF ~att THEN [ret |-> RetFalse, index |-> idx, disk |-> d]
    ELSE LET s == SyncRun(d, att, idx, <<>>)
         IN  [ret |-> IF s.raised THEN RetFalse ELSE RetTrue,
              index |-> s.index, disk |-> s.disk]

\* purge(): try: self._index.purge(); self.sync(); return True
\*          except: return False
\* R is what the index retains, ord the order sync visits it in.
PurgeRun(d, att, idx, R, ord) ==
    IF ~att THEN [ret |-> RetFalse, index |-> idx, disk |-> d]
    ELSE LET s == SyncRun(d, att, IndexRestrict(idx, R), ord)
         IN  [ret |-> IF s.raised THEN RetFalse ELSE RetTrue,
              index |-> s.index, disk |-> s.disk]

\* delete(): shutil.rmtree(self.cachepath) removes every file under the
\* root; it raises when the root is not a directory.
DeleteDisk(d) == [p \in DiskPaths |-> NoFile]
\* A delete() that calls shutil.rmtree with ignore_errors.
DeleteReturnsIgnore(r) == RetNone

DeleteReturns(r) == IF r THEN RetNone ELSE RetRaised

\* A make() that skips the delete() of an existing root.
MakeDiskKeeps(d, r) == [d EXCEPT ![IndexPath] = IndexBlob]

\* make(): delete() when the root is there, os.mkdir, a new ShelveCache at
\* self._indexpath, the slot directories.
MakeDisk(d, r) ==
    [(IF r THEN DeleteDisk(d) ELSE d) EXCEPT ![IndexPath] = IndexBlob]

\* __init__: make() when there is no index file; the index is what the
\* file holds; purge() when it holds more than MAXLEN entries.  R and ord
\* are what that purge() retains and the order its sync() visits.
OpenMakes(d) == ~IsFile(d, IndexPath)
OpenPurges(d, idx) == ~OpenMakes(d) /\ Cardinality(DOMAIN idx) > MAXLEN
\* An __init__ that calls make() whatever it finds.
OpenRunResets(d, r, idx, R, ord) ==
    [disk |-> MakeDisk(d, r), index |-> EmptyIndex]

\* An __init__ without its call of purge().
OpenRunNoPurge(d, r, idx, R, ord) ==
    IF OpenMakes(d) THEN [disk |-> MakeDisk(d, r), index |-> EmptyIndex]
    ELSE [disk |-> d, index |-> idx]

OpenRun(d, r, idx, R, ord) ==
    IF OpenMakes(d) THEN [disk |-> MakeDisk(d, r), index |-> EmptyIndex]
    ELSE IF OpenPurges(d, idx)
    THEN LET p == PurgeRun(d, TRUE, idx, R, ord)
         IN  [disk |-> p.disk, index |-> p.index]
    ELSE [disk |-> d, index |-> idx]

HitsInBound(idx) == \A k \in DOMAIN idx : idx[k].hits <= MaxHits

\* ---------------------------------------------------------------- actions
\* cc = CoversCache(path) on a path that does not exist yet: __init__ finds
\* no index file and calls make().
Init ==
    /\ NSLOTS = RandHi + 1
    /\ disk = [EmptyDisk EXCEPT ![IndexPath] = IndexBlob]
    /\ root = TRUE
    /\ attached = TRUE
    /\ index = EmptyIndex

\* cc[key]
GetItem(key) ==
    /\ HitsInBound(GetIndex(attached, index, key))
    /\ index' = GetIndex(attached, index, key)
    /\ UNCHANGED <<NSLOTS, disk, root, attached>>

\* cc[key] = (url, pth), with content what the file at pth holds (NoFile:
\* there is no such file) and slot what _get_slot draws.
SetItem(key, url, pth, content, slot) ==
    /\ SourceHolds(disk, pth, content)
    /\ disk' = SetDisk(disk, root, NSLOTS, pth, content, slot)
    /\ index' = SetIndex(disk, root, NSLOTS, attached, index, key, url, pth, content, slot)
    /\ UNCHANGED <<NSLOTS, root, attached>>

\* Mutant: del cc[key] removes the file of the entry too.
DelItemRemovesFile(key) ==
    /\ index' = DelIndex(attached, index, key)
    /\ disk' = IF attached /\ IndexHas(index, key) /\ IsFile(disk, index[key].path)
               THEN [disk EXCEPT ![index[key].path] = NoFile]
               ELSE disk
    /\ UNCHANGED <<NSLOTS, root, attached>>

\* del cc[key]
DelItem(key) ==
    /\ index' = DelIndex(attached, index, key)
    /\ UNCHANGED <<NSLOTS, disk, root, attached>>

\* cc.sync()
Sync ==
    \E ord \in KeyOrders(index) :
        LET s == SyncRun(disk, attached, index, ord)
        IN  /\ HitsInBound(s.index)
            /\ index' = s.index
            /\ disk' = s.disk
            /\ UNCHANGED <<NSLOTS, root, attached>>

\* cc.purge()
Purge ==
    \E R \in IndexPurgeRetains(index) :
        \E ord \in KeyOrders(IndexRestrict(index, R)) :
            LET p == PurgeRun(disk, attached, index, R, ord)
            IN  /\ HitsInBound(p.index)
                /\ index' = p.index
                /\ disk' = p.disk
                /\ UNCHANGED <<NSLOTS, root, attached>>

\* cc.delete(): self._index = None; return shutil.rmtree(self.cachepath)
\* rmtree raises when the directory is not there.
Delete ==
    /\ attached' = FALSE
    /\ root' = FALSE
    /\ disk' = DeleteDisk(disk)
    /\ index' = EmptyIndex
    /\ UNCHANGED NSLOTS

\* cc.make(): delete() when the root is there, then mkdir, a new index
\* and the NSLOTS slot directories.
Make ==
    /\ attached' = TRUE
    /\ root' = TRUE
    /\ disk' = MakeDisk(disk, root)
    /\ index' = EmptyIndex
    /\ UNCHANGED NSLOTS

\* CoversCache(path) once more, on what is on disk: the process restarted.
Open ==
    \E R \in IndexPurgeRetains(index) :
        \E ord \in KeyOrders(IndexRestrict(index, R)) :
            LET o == OpenRun(disk, root, index, R, ord)
            IN  /\ HitsInBound(o.index)
                /\ index' = o.index
                /\ disk' = o.disk
                /\ attached' = TRUE
                /\ root' = TRUE
                /\ UNCHANGED NSLOTS

\* The index file is lost while no process has the cache open, and the
\* cache is opened again: __init__ finds no index file and calls make().
IndexLostOpen ==
    /\ root
    /\ LET o == OpenRun([disk EXCEPT ![IndexPath] = NoFile], root, index,
                        DOMAIN index, << >>)
       IN  /\ index' = o.index
           /\ disk' = o.disk
    /\ attached' = TRUE
    /\ UNCHANGED <<NSLOTS, root>>

\* The process stops inside __setitem__ between shutil.copyfile and the
\* write to the index, and the cache is opened again.  The key and the url
\* of the interrupted call have no effect: nothing was committed.
CrashInSet(pth, content, slot) ==
    /\ attached
    /\ SourceHolds(disk, pth, content)
    /\ SourceOk(pth, content)
    /\ ~CopyRaises(root, NSLOTS, pth, Target(slot, pth))
    /\ \E R \in IndexPurgeRetains(index) :
        \E ord \in KeyOrders(IndexRestrict(index, R)) :
            LET o == OpenRun(SetDisk(disk, root, NSLOTS, pth, content, slot),
                             root, index, R, ord)
            IN  /\ HitsInBound(o.index)
                /\ index' = o.index
                /\ disk' = o.disk
    /\ UNCHANGED <<NSLOTS, root, attached>>

\* Somebody else creates a file in a slot directory of the cache.
ExtCreate(p, content) ==
    /\ DirExists(root, NSLOTS, p.dir)
    /\ ~IsFile(disk, p)
    /\ disk' = [disk EXCEPT ![p] = content]
    /\ UNCHANGED <<NSLOTS, root, attached, index>>

\* Somebody else removes a file from a slot directory of the cache.
ExtRemove(p) ==
    /\ IsFile(disk, p)
    /\ disk' = [disk EXCEPT ![p] = NoFile]
    /\ UNCHANGED <<NSLOTS, root, attached, index>>

Next ==
    \/ \E key \in Keys : GetItem(key)
    \/ \E key \in Keys, url \in UrlInputs, pth \in SourcePaths,
          content \in Contents \cup {NoFile}, slot \in GetSlots :
            SetItem(key, url, pth, content, slot)
    \/ \E key \in Keys : DelItem(key)
    \/ Sync
    \/ Purge
    \/ Delete
    \/ Make
    \/ Open
    \/ IndexLostOpen
    \/ \E pth \in SourcePaths, content \in Contents, slot \in GetSlots :
            CrashInSet(pth, content, slot)
    \/ \E p \in SlotPaths, content \in Contents : ExtCreate(p, content)
    \/ \E p \in SlotPaths : ExtRemove(p)

Spec == Init /\ [][Next]_vars

\* The same cache under every configuration of NSLOTS that the model has
\* room for: fewer slot directories than _get_slot draws from, and as many.
InitSlots ==
    /\ NSLOTS \in RandHi .. (RandHi + 1)
    /\ disk = [EmptyDisk EXCEPT ![IndexPath] = IndexBlob]
    /\ root = TRUE
    /\ attached = TRUE
    /\ index = EmptyIndex

SpecSlots == InitSlots /\ [][Next]_vars

\* ------------------------------------------------------------------ claims
\* The (url, path) pairs of an index, without the hit counters.
Entries(idx) == [k \in DOMAIN idx |-> IndexValue(idx, k)]
\* The index holds the same for key in idx2 as in idx1.
SameEntry(idx1, idx2, key) ==
    /\ IndexHas(idx1, key) <=> IndexHas(idx2, key)
    /\ IndexHas(idx1, key) => idx2[key] = idx1[key]
SlotDirs(n) == {SlotDir(i) : i \in 0 .. (n - 1)}
SetInputs ==
    {in \in [key : Keys, url : UrlInputs, pth : SourcePaths,
             content : Contents \cup {NoFile}, slot : GetSlots] :
        SourceHolds(disk, in.pth, in.content)}

\* Every entry whose path is not None names a regular file under the root.
Consistent ==
    \A k \in DOMAIN index :
        index[k].path # NonePath => IsFile(disk, index[k].path)

\* A step of set, delete(key), get, sync or purge.
CacheOp ==
    \/ \E key \in Keys : GetItem(key)
    \/ \E key \in Keys, url \in UrlInputs, pth \in SourcePaths,
          content \in Contents \cup {NoFile}, slot \in GetSlots :
            SetItem(key, url, pth, content, slot)
    \/ \E key \in Keys : DelItem(key)
    \/ Sync
    \/ Purge

\* C1: the cache starts with every non-null path of the index naming an
\* existing regular file under the cache root, and no step of set,
\* delete(key), get, sync or purge takes a state where that holds to a state
\* where it does not; only a removal from outside does.
C1_PathsNameFiles ==
    /\ Consistent
    /\ [][(Consistent /\ ~Consistent') => ~CacheOp]_vars

\* C1 witness: both keys name files of the cache, one entry has been read
\* (by get or sync), and a file no entry names is on disk.
C1_Witness ==
    /\ DOMAIN index = Keys
    /\ Consistent
    /\ \A k \in Keys : index[k].path # NonePath
    /\ \E k \in Keys : index[k].hits > 0
    /\ \E p \in Files(disk) : p # IndexPath /\ \A k \in Keys : index[k].path # p

\* C2: whenever set(k, url, pth) with a non-empty url and pth an existing
\* regular file returns True, get(k) on the state it leaves returns
\* (url, target), where target is in one of the slot directories of the
\* cache root, has the base name of pth, and holds what pth holds.
C2_SetThenGet ==
    \A in \in SetInputs :
        LET d2 == SetDisk(disk, root, NSLOTS, in.pth, in.content, in.slot)
            i2 == SetIndex(disk, root, NSLOTS, attached, index, in.key, in.url,
                           in.pth, in.content, in.slot)
            got == GetValue(attached, i2, in.key)
        IN  (/\ in.url # ""
             /\ SourceOk(in.pth, in.content)
             /\ SetReturns(disk, root, NSLOTS, attached, in.url, in.pth,
                           in.content, in.slot) = RetTrue)
            => /\ GetReturns(attached, i2, in.key) = RetValue
               /\ got.url = in.url
               /\ got.path.dir \in SlotDirs(NSLOTS)
               /\ root
               /\ Basename(got.path) = Basename(in.pth)
               /\ IsFile(d2, got.path)
               /\ d2[got.path] = in.content
               /\ in.pth \in SlotPaths => d2[in.pth] = in.content

\* C2 witness: a set has just written k1 (no hits yet); k1 and k2 name files
\* of the cache with different base names and different contents.
C2_Witness ==
    /\ DOMAIN index = Keys
    /\ index["k1"].hits = 0
    /\ IsFile(disk, index["k1"].path) /\ IsFile(disk, index["k2"].path)
    /\ Basename(index["k1"].path) # Basename(index["k2"].path)
    /\ disk[index["k1"].path] # disk[index["k2"].path]

\* C3: set(k, url, pth) with an empty url, or with pth empty or not an
\* existing regular file, returns False and leaves the entry of k as it was.
C3_BadSetKeepsEntry ==
    \A in \in SetInputs :
        (in.url = "" \/ ~SourceOk(in.pth, in.content))
        => /\ SetReturns(disk, root, NSLOTS, attached, in.url, in.pth,
                         in.content, in.slot) = RetFalse
           /\ SameEntry(index,
                        SetIndex(disk, root, NSLOTS, attached, index, in.key,
                                 in.url, in.pth, in.content, in.slot),
                        in.key)

\* C3 witness: k1 has an entry with a file, and a set on k1 with an empty
\* url and an existing source copies the file and returns False.
C3_Witness ==
    /\ IndexHas(index, "k1") /\ IsFile(disk, index["k1"].path)
    /\ \E in \in SetInputs :
        /\ in.key = "k1" /\ in.url = "" /\ SourceOk(in.pth, in.content)
        /\ SetDisk(disk, root, NSLOTS, in.pth, in.content, in.slot) # disk
        /\ SetReturns(disk, root, NSLOTS, attached, in.url, in.pth,
                      in.content, in.slot) = RetFalse

\* C4: in every state, delete() done or not, get(k) does not raise, it
\* returns None when the index does not hold k, and a key gets into the
\* index only by a set on it: a key never written is absent.
GetAbsent ==
    \A key \in Keys :
        /\ GetReturns(attached, index, key) # RetRaised
        /\ (~attached \/ ~IndexHas(index, key))
            => GetReturns(attached, index, key) = RetNone
KeysOnlyBySet ==
    \A key \in Keys :
        (~IndexHas(index, key) /\ IndexHas(index', key))
        => \E url \in Urls, pth \in SourcePaths, content \in Contents,
              slot \in GetSlots : SetItem(key, url, pth, content, slot)
C4_GetNeverRaises == [](GetAbsent) /\ [][KeysOnlyBySet]_vars

\* C4 witness: delete() has removed the whole cache (the index is None, the
\* root is gone) and get returns None for every key.
C4_Witness ==
    /\ ~attached /\ ~root
    /\ \A key \in Keys : GetReturns(attached, index, key) = RetNone

\* C5 (as claimed): on a cache that is not deleted, sync() run twice in a
\* row completes both times, and the second run leaves the entries and the
\* files the first run left.
C5_SyncTwice ==
    attached =>
        \A o1 \in KeyOrders(index) :
            LET s1 == SyncRun(disk, attached, index, o1)
            IN  \A o2 \in KeyOrders(s1.index) :
                    LET s2 == SyncRun(s1.disk, attached, s1.index, o2)
                    IN  /\ ~s1.raised
                        /\ ~s2.raised
                        /\ Entries(s2.index) = Entries(s1.index)
                        /\ s2.disk = s1.disk

\* C6 (as claimed): when the file of the entry of k is gone, sync() does not
\* raise, it leaves (url, None) for k, and the entries of the other keys
\* whose files exist keep their (url, path).
C6_SyncClearsMissing ==
    attached =>
        \A k \in DOMAIN index :
            (index[k].path # NonePath /\ ~IsFile(disk, index[k].path))
            => \A o \in KeyOrders(index) :
                LET s == SyncRun(disk, attached, index, o)
                IN  /\ ~s.raised
                    /\ IndexValue(s.index, k) = [url |-> index[k].url, path |-> NonePath]
                    /\ \A j \in DOMAIN index \ {k} :
                        IsFile(disk, index[j].path)
                        => IndexValue(s.index, j) = IndexValue(index, j)

\* C7 (as claimed): after sync() every file under the cache root is the
\* index file or the path of an entry, whatever the entries hold.
C7_SyncRemovesOrphans ==
    attached =>
        \A o \in KeyOrders(index) :
            LET s == SyncRun(disk, attached, index, o)
            IN  \A p \in Files(s.disk) :
                    p = IndexPath \/ \E k \in DOMAIN s.index : s.index[k].path = p

\* C8: del cc[k] returns True or False in every state, and get(k) on the
\* state it leaves returns None, whether k had a file, a null path or no
\* entry at all.
C8_DelThenGetNone ==
    \A key \in Keys :
        /\ DelReturns(attached, index, key) \subseteq {RetTrue, RetFalse}
        /\ DelReturns(attached, index, key) # {}
        /\ GetReturns(attached, DelIndex(attached, index, key), key) = RetNone

\* C8 witness: k1 has an entry with a file, k2 an entry with a null path.
C8_Witness ==
    /\ DOMAIN index = Keys
    /\ IsFile(disk, index["k1"].path)
    /\ index["k2"].path = NonePath

\* C9: a step of del cc[k] leaves every file under the cache root as it
\* was, contents included, and leaves the entry of every other key as it
\* was.
DelFrame ==
    \A key \in Keys :
        DelItem(key)
        => /\ disk' = disk
           /\ \A j \in Keys \ {key} : SameEntry(index, index', j)
C9_DelOnlyIndex == [][DelFrame]_vars

\* C9 witness: k1 has no entry, k2 has one with a file, and another file
\* that no entry names is still on disk.
C9_Witness ==
    /\ DOMAIN index = {"k2"}
    /\ IsFile(disk, index["k2"].path)
    /\ \E p \in Files(disk) : p # IndexPath /\ p # index["k2"].path

C11_PurgeFailKeeps ==
    \A R \in IndexPurgeRetains(index) :
        \A o \in KeyOrders(IndexRestrict(index, R)) :
            LET p == PurgeRun(disk, attached, index, R, o)
            IN  /\ p.ret \in {RetTrue, RetFalse}
                /\ p.ret = RetFalse =>
                        /\ Entries(p.index) = Entries(index)
                        /\ p.disk = disk

\* C12: when purge() returns, a file named only by entries evicted in this
\* purge() is gone from disk, and a file named by a retained entry is
\* still there.
C12_PurgeReclaims ==
    attached =>
        \A R \in IndexPurgeRetains(index) :
            \A o \in KeyOrders(IndexRestrict(index, R)) :
                LET p == PurgeRun(disk, attached, index, R, o)
                IN  /\ \A e \in DOMAIN index \ R :
                        (/\ IsFile(disk, index[e].path)
                         /\ \A r \in R : index[r].path # index[e].path)
                            => ~IsFile(p.disk, index[e].path)
                    /\ \A r \in R :
                        IsFile(disk, index[r].path)
                            => IsFile(p.disk, index[r].path)

AllSlotDirs == {SlotDir(i) : i \in 0 .. (MaxDirs - 1)}

\* A step in which make() ran: called directly, or by __init__ on a root
\* with no index file.
MakeRan == Make \/ (Open /\ OpenMakes(disk)) \/ IndexLostOpen

\* C13: after make(), called directly in any state or by open on a root
\* with no index file, the root exists, the index has no keys, the slot
\* directories are exactly slot00 .. slot(NSLOTS-1), they are empty, and no
\* file that was under the root before is left.
C13_MakeFresh ==
    [][MakeRan =>
        /\ root'
        /\ attached'
        /\ DOMAIN index' = {}
        /\ {dir \in AllSlotDirs : DirExists(root', NSLOTS', dir)}
                = SlotDirs(NSLOTS)
        /\ Files(disk') = {IndexPath}]_vars

\* C13 witness: a cache with an entry, its file and an orphan file, on
\* which make() leaves the index file alone.
C13_Witness ==
    /\ root
    /\ DOMAIN index # {}
    /\ \E k \in DOMAIN index : IsFile(disk, index[k].path)
    /\ \E p \in Files(disk) \ {IndexPath} :
            \A k \in DOMAIN index : index[k].path # p
    /\ Files(MakeDisk(disk, root)) = {IndexPath}

\* C14: opening a root whose index file exists and holds at most MAXLEN
\* entries resets nothing: the keys, the (url, path) of each and every file
\* under the slot directories are after the open what they were before.
C14_ReopenKeeps ==
    (IsFile(disk, IndexPath) /\ Cardinality(DOMAIN index) <= MAXLEN) =>
        \A R \in IndexPurgeRetains(index) :
            \A o \in KeyOrders(IndexRestrict(index, R)) :
                LET op == OpenRun(disk, root, index, R, o)
                IN  /\ Entries(op.index) = Entries(index)
                    /\ \A p \in SlotPaths : op.disk[p] = disk[p]
                    /\ IsFile(op.disk, IndexPath)

\* C14 witness: an index file with MAXLEN entries, one of them with its
\* file on disk, which an open leaves in place.
C14_Witness ==
    /\ IsFile(disk, IndexPath)
    /\ Cardinality(DOMAIN index) = MAXLEN
    /\ \E k \in DOMAIN index :
        /\ IsFile(disk, index[k].path)
        /\ LET op == OpenRun(disk, root, index, DOMAIN index, << >>)
           IN  /\ IndexValue(op.index, k) = IndexValue(index, k)
               /\ IsFile(op.disk, index[k].path)

\* C15: after every open the index holds at most MAXLEN entries: an open
\* that finds more has run purge() -- the result of purge() is what it
\* leaves --, and an open that finds an index file with at most MAXLEN
\* entries has not: hit counts and orphan files are untouched.
C15_OpenBounds ==
    \A R \in IndexPurgeRetains(index) :
        \A o \in KeyOrders(IndexRestrict(index, R)) :
            LET op == OpenRun(disk, root, index, R, o)
                p == PurgeRun(disk, TRUE, index, R, o)
            IN  /\ Cardinality(DOMAIN op.index) <= MAXLEN
                /\ OpenPurges(disk, index) =>
                        op.index = p.index /\ op.disk = p.disk
                /\ (~OpenPurges(disk, index) /\ ~OpenMakes(disk)) =>
                        op.index = index /\ op.disk = disk

\* C15 witness: an index file with more than MAXLEN entries, which an open
\* cuts down to MAXLEN, removing a file from disk.
C15_Witness ==
    /\ OpenPurges(disk, index)
    /\ \E R \in IndexPurgeRetains(index) :
        \E o \in KeyOrders(IndexRestrict(index, R)) :
            LET op == OpenRun(disk, root, index, R, o)
            IN  /\ Cardinality(DOMAIN op.index) = MAXLEN
                /\ Files(op.disk) # Files(disk)

\* C16: delete() of the whole cache removes every file under the root and
\* the root itself and detaches the index; when the root is already gone,
\* as for a second delete(), it raises to the caller.
C16_DeleteRaisesWhenGone ==
    /\ [](~root => DeleteReturns(root) = RetRaised)
    /\ [][Delete => (~root' /\ ~attached' /\ Files(disk') = {})]_vars

\* C16 witness: delete() has run on a cache that held files, and a second
\* delete() raises.
C16_Witness ==
    /\ ~root
    /\ ~attached
    /\ Files(disk) = {}
    /\ DeleteReturns(root) = RetRaised

\* C17: when the process stops inside set after the copy and before the
\* commit, then after the reopen the next sync() completes, removes the
\* copied file (no entry names it), leaves every entry whose file is there
\* as it was, and leaves no entry that names a missing file.
C17_CrashThenSync ==
    attached =>
        \A pth \in SourcePaths, content \in Contents, slot \in GetSlots :
            (/\ SourceHolds(disk, pth, content)
             /\ SourceOk(pth, content)
             /\ ~CopyRaises(root, NSLOTS, pth, Target(slot, pth))) =>
                \A R \in IndexPurgeRetains(index) :
                    \A o \in KeyOrders(IndexRestrict(index, R)) :
                        LET target == Target(slot, pth)
                            copied == SetDisk(disk, root, NSLOTS, pth,
                                              content, slot)
                            op == OpenRun(copied, root, index, R, o)
                        IN  \A o2 \in KeyOrders(op.index) :
                                LET s == SyncRun(op.disk, TRUE, op.index, o2)
                                IN  /\ ~s.raised
                                    /\ (\A k \in DOMAIN op.index :
                                            op.index[k].path # target)
                                        => ~IsFile(s.disk, target)
                                    /\ \A k \in DOMAIN op.index :
                                        IsFile(op.disk, op.index[k].path) =>
                                            IndexValue(s.index, k)
                                                = IndexValue(op.index, k)
                                    /\ \A k \in DOMAIN s.index :
                                        s.index[k].path # NonePath =>
                                            IsFile(s.disk, s.index[k].path)

\* C18: for every configured NSLOTS, a slot that set can choose is one of
\* the NSLOTS directories make() created, every created slot can be
\* chosen, and a set with a non-empty url and an existing source file
\* outside the cache succeeds whatever slot is chosen.
C18_SlotIsCreated ==
    /\ GetSlots \subseteq CreateSlots(NSLOTS)
    /\ CreateSlots(NSLOTS) \subseteq GetSlots
    /\ attached =>
        \A in \in SetInputs :
            (in.url # "" /\ in.pth \in ExtPaths
             /\ SourceOk(in.pth, in.content))
            => SetReturns(disk, root, NSLOTS, attached, in.url, in.pth,
                          in.content, in.slot) = RetTrue

\* C19: set(k2, url2, source2), whether it succeeds or fails, leaves the
\* entry of every other key k1 as it was and leaves the contents of the
\* file that entry names as they were, also when source2 has the base name
\* of that file.
C19_SetFrame ==
    \A in \in SetInputs :
        \A k1 \in Keys \ {in.key} :
            /\ SameEntry(index,
                         SetIndex(disk, root, NSLOTS, attached, index, in.key,
                                  in.url, in.pth, in.content, in.slot),
                         k1)
            /\ (IndexHas(index, k1) /\ IsFile(disk, index[k1].path)) =>
                    SetDisk(disk, root, NSLOTS, in.pth, in.content,
                            in.slot)[index[k1].path]
                        = disk[index[k1].path]

\* C20: sync() never deletes the index file, and never deletes or changes
\* a file that is there and is the recorded path of an entry when sync()
\* is called; such an entry keeps its (url, path).
C20_SyncKeepsReferenced ==
    \A o \in KeyOrders(index) :
        LET s == SyncRun(disk, attached, index, o)
        IN  /\ IsFile(disk, IndexPath) => IsFile(s.disk, IndexPath)
            /\ \A k \in DOMAIN index :
                IsFile(disk, index[k].path) =>
                    /\ s.disk[index[k].path] = disk[index[k].path]
                    /\ IndexHas(s.index, k)
                    /\ IndexValue(s.index, k) = IndexValue(index, k)

\* C20 witness: an entry with its file on disk next to an orphan file, and
\* a sync() that completes, removes the orphan and keeps the entry's file.
C20_Witness ==
    /\ attached
    /\ \E k \in DOMAIN index : IsFile(disk, index[k].path)
    /\ \E o \in KeyOrders(index) :
        LET s == SyncRun(disk, attached, index, o)
        IN  /\ ~s.raised
            /\ Files(s.disk) # Files(disk)
            /\ IsFile(s.disk, IndexPath)

====
